---- MODULE Spec2Model ----
(***************************************************************************)
(* Model of the sales data loader (src/src/data_loader.py) and of the     *)
(* terminal menu that drives it (src/cli/main.py).                         *)
(*                                                                         *)
(* A spreadsheet file is abstracted to what the loader looks at: whether  *)
(* it can be opened and parsed, the header row, the cells of the `date`   *)
(* column and the dtype the parser infers for the `sales` column.          *)
(***************************************************************************)
EXTENDS Integers, Sequences, FiniteSets, TLC

VARIABLES data_loader, current_data, pc, event

vars == <<data_loader, current_data, pc, event>>

(***************************************************************************)
(* Bounds of the model.                                                    *)
(***************************************************************************)
MaxRows == 2
MaxCols == 4

(***************************************************************************)
(* Generic helpers.                                                        *)
(***************************************************************************)
Range(s) == {s[i] : i \in 1..Len(s)}

None == <<>>
Some(x) == <<x>>

SeqsUpTo(S, n) == UNION {[1..k -> S] : k \in 0..n}

InjSeqsUpTo(S, n) == {s \in SeqsUpTo(S, n) : \A i, j \in 1..Len(s) : i # j => s[i] # s[j]}

Count(s, v) == Cardinality({i \in 1..Len(s) : s[i] = v})

(***************************************************************************)
(* Spreadsheet files.                                                      *)
(*   status  : "missing" (the path does not resolve), "corrupt" (the       *)
(*             parser rejects the file) or "ok"                            *)
(*   columns : the header row, left to right (the parser keeps column      *)
(*             names distinct)                                             *)
(*   date    : the cells of the date column, top to bottom; a cell is a    *)
(*             native date ("date"), a text the date parser accepts        *)
(*             ("text"), a text no date parser accepts ("junk") or empty   *)
(*             ("null")                                                    *)
(*   sales   : dtype of the sales column ("float64" numeric, "object"      *)
(*             when it holds text)                                         *)
(***************************************************************************)
ColumnNames == {"date", "sales", "b", "a"}
CellKinds == {"date", "text", "junk", "null"}
SalesDtypes == {"float64", "object"}

Sheets ==
    [status : {"ok"},
     columns : InjSeqsUpTo(ColumnNames, MaxCols),
     date : SeqsUpTo(CellKinds, MaxRows),
     sales : SalesDtypes]

Unreadable(st) == [status |-> st, columns |-> <<>>, date |-> <<>>, sales |-> "float64"]

FileSpace == Sheets \cup {Unreadable("missing"), Unreadable("corrupt")}

NoFile == Unreadable("none")

(***************************************************************************)
(* Exceptions: the class, the message as the chain of message prefixes     *)
(* (each handler embeds str(e) of the failure it wraps), and the list of   *)
(* column names the message prints, if any.                                *)
(***************************************************************************)
Exc(cls, text, missing) == [cls |-> cls, text |-> text, missing |-> missing]

Wrap(cls, prefix, e) == Exc(cls, <<prefix>> \o e.text, e.missing)

(***************************************************************************)
(* pandas: dtype inference, read_excel, to_datetime, min of a date column. *)
(***************************************************************************)
InferDtype(cells) ==
    IF cells # <<>> /\ Range(cells) \subseteq {"date", "null"} /\ "date" \in Range(cells)
    THEN "datetime64"
    ELSE IF cells # <<>> /\ Range(cells) = {"null"} THEN "float64" ELSE "object"

\* The DataFrame read_excel builds from a sheet.
DataFrame(file) ==
    [columns |-> file.columns,
     date |-> file.date,
     date_dtype |-> InferDtype(file.date),
     sales_dtype |-> file.sales]

read_excel(file) ==
    CASE file.status = "missing" ->
            [raised |-> Some(Exc("FileNotFoundError", <<"No such file or directory">>, <<>>)),
             value |-> None]
      [] file.status = "corrupt" ->
            [raised |-> Some(Exc("BadZipFile", <<"File is not a zip file">>, <<>>)),
             value |-> None]
      [] OTHER ->
            [raised |-> None, value |-> Some(DataFrame(file))]

to_datetime(cells) ==
    IF "junk" \in Range(cells)
    THEN [raised |-> Some(Exc("ValueError", <<"Unknown datetime string format">>, <<>>)),
          value |-> cells]
    ELSE [raised |-> None,
          value |-> [i \in 1..Len(cells) |-> IF cells[i] = "null" THEN "null" ELSE "date"]]

isnull_sum(cells) == Count(cells, "null")

\* min()/max() skip nulls and give NaT when no cell is left.
min_is_NaT(cells) == \A i \in 1..Len(cells) : cells[i] = "null"

(***************************************************************************)
(* SalesDataLoader                                                         *)
(***************************************************************************)
required_columns == <<"date", "sales">>

SalesDataLoader == [data |-> None, custom_columns |-> <<>>]

\* Result of running a method on the loader `self`: the loader afterwards, the
\* exception the method raised (None if it returned), the lines it printed and
\* the count given in the invalid-dates warning (None if no warning).
Ret(self, raised, printed, invalid) ==
    [self |-> self, raised |-> raised, printed |-> printed, invalid |-> invalid]

\* Variant: the check stops at the first required column found missing.
_validate_required_columns_first_only(self) ==
    LET columns == self.data[1].columns
        missing_columns == SelectSeq(required_columns, LAMBDA col : col \notin Range(columns))
    IN  IF missing_columns # <<>>
        THEN Ret(self, Some(Exc("ValueError", <<"Required fields missing">>,
                                <<Head(missing_columns)>>)),
                 <<>>, None)
        ELSE Ret(self, None, <<"Required fields validated successfully">>, None)

_validate_required_columns(self) ==
    LET columns == self.data[1].columns
        missing_columns == SelectSeq(required_columns, LAMBDA col : col \notin Range(columns))
    IN  IF missing_columns # <<>>
        THEN Ret(self, Some(Exc("ValueError", <<"Required fields missing">>, missing_columns)),
                 <<>>, None)
        ELSE Ret(self, None, <<"Required fields validated successfully">>, None)

_process_date_column(self) ==
    LET df == self.data[1]
        conv == IF df.date_dtype # "datetime64"
                THEN to_datetime(df.date)
                ELSE [raised |-> None, value |-> df.date]
        df2 == [df EXCEPT !.date = conv.value, !.date_dtype = "datetime64"]
        null_count == isnull_sum(conv.value)
    IN  IF conv.raised # None
        THEN Ret(self, Some(Wrap("ValueError", "Error processing date column", conv.raised[1])),
                 <<>>, None)
        ELSE IF null_count > 0
        THEN Ret([self EXCEPT !.data = Some(df2)], None,
                 <<"Found invalid dates", "Date column processed successfully">>,
                 Some(null_count))
        ELSE Ret([self EXCEPT !.data = Some(df2)], None,
                 <<"Date column processed successfully">>, None)

Alphabetical == <<"a", "b", "date", "sales">>

\* Variant: the features are taken from the set of column names, sorted.
_detect_custom_columns_sorted(self) ==
    LET custom == SelectSeq(Alphabetical,
                            LAMBDA col : /\ col \in Range(self.data[1].columns)
                                         /\ col \notin Range(required_columns))
    IN  Ret([self EXCEPT !.custom_columns = custom], None,
            IF custom # <<>> THEN <<"Custom features detected">>
                             ELSE <<"No custom features found">>,
            None)

\* Variant: the features found are added to the list kept from earlier loads.
_detect_custom_columns_extend(self) ==
    LET found == SelectSeq(self.data[1].columns, LAMBDA col : col \notin Range(required_columns))
        custom == self.custom_columns
                    \o SelectSeq(found, LAMBDA col : col \notin Range(self.custom_columns))
    IN  Ret([self EXCEPT !.custom_columns = custom], None,
            IF custom # <<>> THEN <<"Custom features detected">>
                             ELSE <<"No custom features found">>,
            None)

_detect_custom_columns(self) ==
    LET custom == SelectSeq(self.data[1].columns, LAMBDA col : col \notin Range(required_columns))
    IN  Ret([self EXCEPT !.custom_columns = custom], None,
            IF custom # <<>> THEN <<"Custom features detected">>
                             ELSE <<"No custom features found">>,
            None)

\* The summary: header, period, record count, sales statistics.
_show_data_info(self) ==
    LET df == self.data[1]
    IN  IF min_is_NaT(df.date)
        THEN Ret(self, Some(Exc("ValueError", <<"NaTType does not support strftime">>, <<>>)),
                 <<"LOADED DATA INFORMATION">>, None)
        ELSE IF df.sales_dtype = "object"
        THEN Ret(self, Some(Exc("TypeError", <<"Could not convert to numeric">>, <<>>)),
                 <<"LOADED DATA INFORMATION", "Period", "Total records">>, None)
        ELSE Ret(self, None,
                 <<"LOADED DATA INFORMATION", "Period", "Total records", "Sales statistics">>,
                 None)

\* What load_excel hands back: the loader afterwards, the exception raised to the
\* caller (None on success), the DataFrame returned (None on failure), the
\* printed lines and the invalid-dates warning.
LoadResult(self, raised, returned, printed, invalid) ==
    [self |-> self, raised |-> raised, returned |-> returned,
     printed |-> printed, invalid |-> invalid]

\* The two except clauses of load_excel.
Reraise(e) ==
    IF e.cls = "FileNotFoundError"
    THEN Exc("FileNotFoundError", <<"File not found">>, <<>>)
    ELSE Wrap("Exception", "Error loading file", e)

\* Variant: the features are detected right after the parse, before validation.
load_excel_detect_first(self, file) ==
    LET p0 == <<"Loading file">>
        rd == read_excel(file)
    IN  IF rd.raised # None
        THEN LoadResult(self, Some(Reraise(rd.raised[1])), None, p0, None)
        ELSE
    LET s1 == [self EXCEPT !.data = rd.value]
        c  == _detect_custom_columns(s1)
        p1 == p0 \o c.printed
        v  == _validate_required_columns(c.self)
        p2 == p1 \o v.printed
    IN  IF v.raised # None
        THEN LoadResult(v.self, Some(Reraise(v.raised[1])), None, p2, None)
        ELSE
    LET d  == _process_date_column(v.self)
        p3 == p2 \o d.printed
    IN  IF d.raised # None
        THEN LoadResult(d.self, Some(Reraise(d.raised[1])), None, p3, None)
        ELSE
    LET i  == _show_data_info(d.self)
        p4 == p3 \o i.printed
    IN  IF i.raised # None
        THEN LoadResult(i.self, Some(Reraise(i.raised[1])), None, p4, d.invalid)
        ELSE LoadResult(i.self, None, i.self.data, p4, d.invalid)

load_excel(self, file) ==
    LET p0 == <<"Loading file">>
        rd == read_excel(file)
    IN  IF rd.raised # None
        THEN LoadResult(self, Some(Reraise(rd.raised[1])), None, p0, None)
        ELSE
    LET s1 == [self EXCEPT !.data = rd.value]
        v  == _validate_required_columns(s1)
        p1 == p0 \o v.printed
    IN  IF v.raised # None
        THEN LoadResult(v.self, Some(Reraise(v.raised[1])), None, p1, None)
        ELSE
    LET d  == _process_date_column(v.self)
        p2 == p1 \o d.printed
    IN  IF d.raised # None
        THEN LoadResult(d.self, Some(Reraise(d.raised[1])), None, p2, None)
        ELSE
    LET c  == _detect_custom_columns(d.self)
        p3 == p2 \o c.printed
    IN  IF c.raised # None
        THEN LoadResult(c.self, Some(Reraise(c.raised[1])), None, p3, d.invalid)
        ELSE
    LET i  == _show_data_info(c.self)
        p4 == p3 \o i.printed
    IN  IF i.raised # None
        THEN LoadResult(i.self, Some(Reraise(i.raised[1])), None, p4, d.invalid)
        ELSE LoadResult(i.self, None, i.self.data, p4, d.invalid)

\* The convenience function: a fresh loader, one load.
load_sales_data(file) == load_excel(SalesDataLoader, file)

\* What the caller of load_excel observes of the call itself.
Observed(r) ==
    [raised |-> r.raised, returned |-> r.returned, printed |-> r.printed, invalid |-> r.invalid]

NoResult == [raised |-> None, returned |-> None, printed |-> <<>>, invalid |-> None]

(***************************************************************************)
(* SalesPredictionCLI: console input.  A typed line is a sequence of       *)
(* characters; a read of the console gives a line, fails at end of input   *)
(* (EOFError) or is interrupted by the user (KeyboardInterrupt).           *)
(***************************************************************************)
Digits == <<"0", "1", "2", "3", "4", "5", "6", "7", "8", "9">>

DigitValue(c) == (CHOOSE i \in 1..10 : Digits[i] = c) - 1

IsDigit(c) == c \in Range(Digits)

RECURSIVE strip(_)
strip(line) ==
    IF line # <<>> /\ Head(line) = " " THEN strip(Tail(line))
    ELSE IF line # <<>> /\ line[Len(line)] = " " THEN strip(SubSeq(line, 1, Len(line) - 1))
    ELSE line

RECURSIVE DigitsToNat(_)
DigitsToNat(ds) ==
    IF ds = <<>> THEN 0
    ELSE 10 * DigitsToNat(SubSeq(ds, 1, Len(ds) - 1)) + DigitValue(ds[Len(ds)])

\* int(text): a ValueError unless the text is an optionally signed run of digits.
int(text) ==
    LET body == IF text # <<>> /\ Head(text) = "-" THEN Tail(text) ELSE text
        ok == body # <<>> /\ \A i \in 1..Len(body) : IsDigit(body[i])
    IN  IF ~ok
        THEN [raised |-> Some(Exc("ValueError", <<"invalid literal for int()">>, <<>>)), value |-> 0]
        ELSE [raised |-> None,
              value |-> IF body = text THEN DigitsToNat(body) ELSE 0 - DigitsToNat(body)]

Line(text) == [kind |-> "line", text |-> text]
EndOfInput == [kind |-> "eof", text |-> <<>>]
Interrupt == [kind |-> "interrupt", text |-> <<>>]

\* input(): the line typed, or the exception the read raises.
input(read) ==
    CASE read.kind = "eof" ->
            [raised |-> Some(Exc("EOFError", <<"EOF when reading a line">>, <<>>)), value |-> <<>>]
      [] read.kind = "interrupt" ->
            [raised |-> Some(Exc("KeyboardInterrupt", <<>>, <<>>)), value |-> <<>>]
      [] OTHER ->
            [raised |-> None, value |-> read.text]

(***************************************************************************)
(* The data/input directory: the spreadsheets found there, in the sorted   *)
(* order the file picker numbers them.                                     *)
(***************************************************************************)
Sheet(columns, date, sales) ==
    [status |-> "ok", columns |-> columns, date |-> date, sales |-> sales]

Catalogue ==
    << Sheet(<<"b", "date", "a", "sales">>, <<"text", "null">>, "float64"),
       Sheet(<<"date", "sales">>, <<"date", "date">>, "float64"),
       Sheet(<<"sales", "a", "date">>, <<"date">>, "float64"),
       Sheet(<<"a", "date", "sales">>, <<"null">>, "float64"),
       Sheet(<<"date", "sales", "b">>, <<"date">>, "object"),
       Sheet(<<"date", "sales", "a", "b">>, <<>>, "float64"),
       Sheet(<<"date", "sales">>, <<"text", "junk">>, "float64"),
       Sheet(<<"date", "b">>, <<"date">>, "float64"),
       Sheet(<<"b", "sales">>, <<"date">>, "float64"),
       Sheet(<<"b">>, <<"date">>, "float64"),
       Unreadable("corrupt"),
       Unreadable("missing") >>

\* What _get_excel_files gives: the sorted names, an empty list (no directory,
\* no spreadsheet in it), or a failure of the directory listing.
Listings ==
    {[raised |-> None, files |-> Catalogue],
     [raised |-> None, files |-> <<>>],
     [raised |-> Some(Exc("PermissionError", <<"Permission denied">>, <<>>)), files |-> <<>>]}

_get_excel_files(listing) == listing

RECURSIVE NatToDigits(_)
NatToDigits(n) ==
    IF n < 10 THEN <<Digits[n + 1]>> ELSE NatToDigits(n \div 10) \o <<Digits[(n % 10) + 1]>>

\* Lines the user may type at the file prompt.
SelectionLines ==
    {NatToDigits(n) : n \in 0..(Len(Catalogue) + 1)}
        \cup {<<" ">> \o NatToDigits(2) \o <<" ">>, <<"-", "1">>, <<"a">>, <<>>}

SelectionReads == {Line(t) : t \in SelectionLines} \cup {EndOfInput, Interrupt}

\* Lines the user may type at the main menu.
MenuLines == {<<"1">>, <<"2">>, <<"3">>, <<"0">>, <<"9">>, <<>>, <<" ", "2">>}

(***************************************************************************)
(* SalesPredictionCLI methods.  Each gives the loader and the current-data *)
(* slot afterwards, the exception that leaves the method (None if it       *)
(* returns), the file it loaded and what load_excel handed back.           *)
(***************************************************************************)
CliRet(loader, current, raised, file, result, shown) ==
    [data_loader |-> loader, current_data |-> current, raised |-> raised,
     file |-> file, result |-> result, shown |-> shown]

\* Variant: the slot takes the loader's table whether or not the load succeeded.
_select_and_load_file_always_assign(loader, current, listing, read) ==
    LET ls == _get_excel_files(listing)
        excel_files == ls.files
    IN  IF ls.raised # None
        THEN CliRet(loader, current, ls.raised, NoFile, NoResult, <<>>)
        ELSE IF excel_files = <<>>
        THEN CliRet(loader, current, None, NoFile, NoResult, <<>>)
        ELSE
    LET typed == input(read)
    IN  IF typed.raised # None
        THEN IF typed.raised[1].cls = "KeyboardInterrupt"
             THEN CliRet(loader, current, typed.raised, NoFile, NoResult, <<>>)
             ELSE CliRet(loader, current, None, NoFile, NoResult, <<>>)
        ELSE
    LET choice == int(strip(typed.value))
    IN  IF choice.raised # None
        THEN CliRet(loader, current, None, NoFile, NoResult, <<>>)
        ELSE IF choice.value = 0
        THEN CliRet(loader, current, None, NoFile, NoResult, <<>>)
        ELSE IF 1 <= choice.value /\ choice.value <= Len(excel_files)
        THEN LET selected_file == excel_files[choice.value]
                 r == load_excel(loader, selected_file)
             IN  CliRet(r.self, r.self.data, None, selected_file, Observed(r), <<>>)
        ELSE CliRet(loader, current, None, NoFile, NoResult, <<>>)

_select_and_load_file(loader, current, listing, read) ==
    LET ls == _get_excel_files(listing)
        excel_files == ls.files
    IN  IF ls.raised # None
        THEN CliRet(loader, current, ls.raised, NoFile, NoResult, <<>>)
        ELSE IF excel_files = <<>>
        THEN CliRet(loader, current, None, NoFile, NoResult, <<>>)
        ELSE
    LET typed == input(read)
    IN  IF typed.raised # None
        THEN IF typed.raised[1].cls = "KeyboardInterrupt"
             THEN CliRet(loader, current, typed.raised, NoFile, NoResult, <<>>)
             ELSE CliRet(loader, current, None, NoFile, NoResult, <<>>)
        ELSE
    LET choice == int(strip(typed.value))
    IN  IF choice.raised # None
        THEN CliRet(loader, current, None, NoFile, NoResult, <<>>)
        ELSE IF choice.value = 0
        THEN CliRet(loader, current, None, NoFile, NoResult, <<>>)
        ELSE IF 1 <= choice.value /\ choice.value <= Len(excel_files)
        THEN LET selected_file == excel_files[choice.value]
                 r == load_excel(loader, selected_file)
             IN  IF r.raised # None
                 THEN CliRet(r.self, current, None, selected_file, Observed(r), <<>>)
                 ELSE CliRet(r.self, r.returned, None, selected_file, Observed(r), <<>>)
        ELSE CliRet(loader, current, None, NoFile, NoResult, <<>>)

cli_show_data_info(loader, current) ==
    IF current = None
    THEN CliRet(loader, current, None, NoFile, NoResult, <<>>)
    ELSE IF min_is_NaT(current[1].date)
    THEN CliRet(loader, current,
                Some(Exc("ValueError", <<"NaTType does not support strftime">>, <<>>)),
                NoFile, NoResult, <<>>)
    ELSE CliRet(loader, current, None, NoFile, NoResult, loader.custom_columns)

_make_prediction(loader, current) ==
    CliRet(loader, current, None, NoFile, NoResult, <<>>)

(***************************************************************************)
(* State.                                                                  *)
(*   data_loader  : the loader instance (data, custom_columns)             *)
(*   current_data : the menu's current-dataset slot                        *)
(*   pc           : where the menu loop is                                 *)
(*   event        : the last operation: its name, the file it loaded, the  *)
(*                  loader before it, what load_excel handed back and the  *)
(*                  feature list the menu displayed                        *)
(***************************************************************************)
Event(op, file, pre, result, shown) ==
    [op |-> op, file |-> file, pre |-> pre, result |-> result, shown |-> shown]

Init ==
    /\ data_loader = SalesDataLoader
    /\ current_data = None
    /\ pc = "menu"
    /\ event = Event("start", NoFile, SalesDataLoader, NoResult, <<>>)

(***************************************************************************)
(* Direct use of the loader: load_sales_data called once on a file.        *)
(***************************************************************************)
LoadSalesData ==
    /\ event.op = "start"
    /\ \E file \in FileSpace :
         LET r == load_sales_data(file)
         IN  /\ data_loader' = r.self
             /\ event' = Event("load", file, SalesDataLoader, Observed(r), <<>>)
    /\ UNCHANGED <<current_data, pc>>

LoaderNext == LoadSalesData

LoaderSpec == Init /\ [][LoaderNext]_vars

(***************************************************************************)
(* The menu loop, SalesPredictionCLI.run.  pc is "menu" while the loop     *)
(* waits for a menu choice, "pause" while it waits at "Press Enter to      *)
(* continue", "exited" after the loop was left by break, "interrupted"     *)
(* after a KeyboardInterrupt left run uncaught, and "crashed" after any    *)
(* other exception left run uncaught.                                      *)
(***************************************************************************)
\* The try block's handlers: KeyboardInterrupt breaks out of the loop, any
\* other exception is printed and the loop goes on to the pause.
AfterBody(raised) ==
    IF raised = None THEN "pause"
    ELSE IF raised[1].cls = "KeyboardInterrupt" THEN "exited"
    ELSE "pause"

Apply(op, r) ==
    /\ data_loader' = r.data_loader
    /\ current_data' = r.current_data
    /\ pc' = AfterBody(r.raised)
    /\ event' = Event(op, r.file, data_loader, r.result, r.shown)

\* Choice 1.
MenuSelectAndLoad ==
    /\ pc = "menu"
    /\ \E menu \in MenuLines, listing \in Listings, read \in SelectionReads :
         /\ strip(menu) = <<"1">>
         /\ Apply("select", _select_and_load_file(data_loader, current_data, listing, read))

\* Choice 2.
MenuShowInfo ==
    /\ pc = "menu"
    /\ \E menu \in MenuLines :
         /\ strip(menu) = <<"2">>
         /\ Apply("info", cli_show_data_info(data_loader, current_data))

\* Choice 3.
MenuPredict ==
    /\ pc = "menu"
    /\ \E menu \in MenuLines :
         /\ strip(menu) = <<"3">>
         /\ Apply("predict", _make_prediction(data_loader, current_data))

\* Choice 0.
MenuExit ==
    /\ pc = "menu"
    /\ \E menu \in MenuLines :
         /\ strip(menu) = <<"0">>
         /\ pc' = "exited"
         /\ event' = Event("exit", NoFile, data_loader, NoResult, <<>>)
         /\ UNCHANGED <<data_loader, current_data>>

\* Any other line.
MenuInvalid ==
    /\ pc = "menu"
    /\ \E menu \in MenuLines :
         /\ strip(menu) \notin {<<"1">>, <<"2">>, <<"3">>, <<"0">>}
         /\ pc' = "pause"
         /\ event' = Event("invalid", NoFile, data_loader, NoResult, <<>>)
         /\ UNCHANGED <<data_loader, current_data>>

\* The read of the menu choice fails or is interrupted.
MenuReadFails ==
    /\ pc = "menu"
    /\ \E read \in {EndOfInput, Interrupt} :
         /\ pc' = AfterBody(input(read).raised)
         /\ event' = Event("menu_" \o read.kind, NoFile, data_loader, NoResult, <<>>)
         /\ UNCHANGED <<data_loader, current_data>>

\* input("Press Enter to continue..."), after the try statement.
PressEnter ==
    /\ pc = "pause"
    /\ \E read \in {Line(<<>>), EndOfInput, Interrupt} :
         LET typed == input(read)
         IN  /\ pc' = IF typed.raised = None THEN "menu"
                      ELSE IF typed.raised[1].cls = "KeyboardInterrupt" THEN "interrupted"
                      ELSE "crashed"
             /\ event' = Event("pause_" \o read.kind, NoFile, data_loader, NoResult, <<>>)
             /\ UNCHANGED <<data_loader, current_data>>

Next ==
    \/ MenuSelectAndLoad
    \/ MenuShowInfo
    \/ MenuPredict
    \/ MenuExit
    \/ MenuInvalid
    \/ MenuReadFails
    \/ PressEnter

Spec == Init /\ [][Next]_vars

(***************************************************************************)
(* Properties of the loader called directly (LoaderSpec).                  *)
(***************************************************************************)
Loaded == event.op = "load" /\ event.file.status = "ok"

HasDate == "date" \in Range(event.file.columns)
HasSales == "sales" \in Range(event.file.columns)

Failed == event.result.raised # None
Error == event.result.raised[1]

\* C1: whenever the parsed table lacks `date`, `sales` or both, load fails and
\* the error lists exactly the missing required columns, `date` before `sales`,
\* whatever the order of the table's own columns.
C1_MissingColumnsNamedInOrder ==
    (Loaded /\ (~HasDate \/ ~HasSales)) =>
        /\ Failed
        /\ event.result.returned = None
        /\ "Required fields missing" \in Range(Error.text)
        /\ Error.missing = CASE ~HasDate /\ ~HasSales -> <<"date", "sales">>
                             [] ~HasDate /\ HasSales  -> <<"date">>
                             [] OTHER                 -> <<"sales">>

C1_Witness ==
    /\ Loaded
    /\ event.file.columns = <<"b", "a">>
    /\ Failed
    /\ Error.missing = <<"date", "sales">>

\* C2: every failure of load has the kind its first failing step gives it:
\* FileNotFoundError for an unresolvable path, the generic load error for a
\* parser failure, and the validation error (ValueError, as load_excel documents)
\* for a missing required column or an unparseable date cell, so that a
\* validation failure differs in kind from a load error.
C2_FailureKindByStep ==
    (event.op = "load" /\ Failed) =>
        /\ event.file.status = "missing" => Error.cls = "FileNotFoundError"
        /\ event.file.status = "corrupt" => Error.cls = "Exception"
        /\ (Loaded /\ (~HasDate \/ ~HasSales)) => Error.cls = "ValueError"
        /\ (Loaded /\ HasDate /\ HasSales /\ "junk" \in Range(event.file.date))
              => Error.cls = "ValueError"

\* Which steps ran, as the printed lines, the error text and the loader show.
Printed == event.result.printed
ValidateOk == "Required fields validated successfully" \in Range(Printed)
DateOk == "Date column processed successfully" \in Range(Printed)
DateRan ==
    \/ DateOk
    \/ "Found invalid dates" \in Range(Printed)
    \/ (Failed /\ "Error processing date column" \in Range(Error.text))
DetectRan ==
    \/ "Custom features detected" \in Range(Printed)
    \/ "No custom features found" \in Range(Printed)
SummaryRan == "LOADED DATA INFORMATION" \in Range(Printed)

StepOf(line) ==
    CASE line = "Loading file" -> 1
      [] line = "Required fields validated successfully" -> 2
      [] line \in {"Found invalid dates", "Date column processed successfully"} -> 3
      [] line \in {"Custom features detected", "No custom features found"} -> 4
      [] OTHER -> 5

\* C3: the steps of load run in the order parse, validation, date
\* normalization, feature detection, summary, each only if every earlier one
\* succeeded: with a required column absent there is no date conversion, no
\* feature detection and no summary, and with a failed date normalization there
\* is no feature detection and no summary.
C3_StepsInOrder ==
    event.op = "load" =>
        /\ \A i, j \in 1..Len(Printed) : i < j => StepOf(Printed[i]) <= StepOf(Printed[j])
        /\ ValidateOk => data_loader.data # None
        /\ DateRan => ValidateOk
        /\ DetectRan => DateOk
        /\ SummaryRan => DetectRan
        /\ ~Failed => SummaryRan
        /\ (Loaded /\ (~HasDate \/ ~HasSales)) =>
              /\ ~DateRan /\ ~DetectRan /\ ~SummaryRan
              /\ data_loader.data = Some(DataFrame(event.file))
              /\ data_loader.custom_columns = event.pre.custom_columns
        /\ (Loaded /\ HasDate /\ HasSales /\ "junk" \in Range(event.file.date)) =>
              /\ Failed
              /\ ~DetectRan /\ ~SummaryRan
              /\ data_loader.data = Some(DataFrame(event.file))
              /\ data_loader.custom_columns = event.pre.custom_columns

C3_Witness ==
    /\ Loaded
    /\ event.file.columns = <<"b", "date">>
    /\ event.file.date = <<"text", "junk">>
    /\ Failed
    /\ Printed = <<"Loading file">>

PositionIn(s, x) == CHOOSE i \in 1..Len(s) : s[i] = x

\* C4: after a successful load of a table with columns C the feature manifest
\* is C without `date` and `sales`, in the order of C, with no column dropped
\* or repeated; it is empty exactly when C has no other column.
C4_ManifestInSourceOrder ==
    (Loaded /\ ~Failed) =>
        LET C == event.file.columns
            m == data_loader.custom_columns
        IN  /\ Range(m) = Range(C) \ {"date", "sales"}
            /\ Len(m) = Cardinality(Range(m))
            /\ \A i, j \in 1..Len(m) : i < j => PositionIn(C, m[i]) < PositionIn(C, m[j])
            /\ (m = <<>>) <=> (Range(C) \subseteq {"date", "sales"})

C4_Witness ==
    /\ Loaded /\ ~Failed
    /\ event.file.columns = <<"b", "date", "a", "sales">>
    /\ data_loader.custom_columns = <<"b", "a">>
    /\ event.result.returned = data_loader.data

\* C5: for a table with both required columns whose date cells are each a
\* valid date or null (and whose sales are numeric), load succeeds, returns the
\* dataset and warns with the number of null date cells (no warning when there
\* is none), also when every date cell is null or there is no record.
C5_NullDatesTolerated ==
    (Loaded /\ HasDate /\ HasSales /\ "junk" \notin Range(event.file.date)
            /\ event.file.sales = "float64") =>
        /\ ~Failed
        /\ event.result.returned # None
        /\ event.result.invalid =
              IF Count(event.file.date, "null") > 0
              THEN Some(Count(event.file.date, "null")) ELSE None

(***************************************************************************)
(* Properties of the menu and the loader it holds (Spec).                  *)
(***************************************************************************)
Selected == event.op = "select" /\ event.file # NoFile

\* The outcome of a load as its caller sees it: on success the dataset, its
\* record count, the summary lines, the warning and the manifest; on failure
\* the failure.
LoadOutcome(r) ==
    IF r.raised = None
    THEN [ok |-> TRUE, raised |-> None, returned |-> r.returned,
          records |-> Len(r.returned[1].date), printed |-> r.printed,
          invalid |-> r.invalid, manifest |-> r.self.custom_columns]
    ELSE [ok |-> FALSE, raised |-> r.raised, returned |-> None,
          records |-> 0, printed |-> <<>>, invalid |-> None, manifest |-> <<>>]

\* C6: whatever loads, successful or failed, the loader went through, loading a
\* file gives the outcome that loading it on a fresh loader gives: the result
\* depends on the file alone, so two loads of the same file agree.
C6_LoadDependsOnFileOnly ==
    /\ \A i \in 1..Len(Catalogue) :
          LoadOutcome(load_excel(data_loader, Catalogue[i]))
              = LoadOutcome(load_excel(SalesDataLoader, Catalogue[i]))
    /\ Selected =>
          LET fresh == LoadOutcome(load_excel(SalesDataLoader, event.file))
          IN  /\ event.result.raised = fresh.raised
              /\ event.result.returned = fresh.returned
              /\ ~Failed => /\ data_loader.custom_columns = fresh.manifest
                            /\ event.result.printed = fresh.printed
                            /\ event.result.invalid = fresh.invalid

C6_Witness ==
    /\ Selected /\ ~Failed
    /\ event.file = Catalogue[3]
    /\ event.pre.data # None
    /\ event.pre.custom_columns = <<"b", "a">>
    /\ data_loader.custom_columns = <<"a">>

\* C7: when load fails, no dataset is returned and the loader is left as it
\* was before the call: the table it holds and its feature manifest are those
\* of the most recent successful load.
C7_FailedLoadLeavesLoader ==
    (Selected /\ Failed) =>
        /\ event.result.returned = None
        /\ data_loader = event.pre

\* C8: the current-data slot starts empty and changes only in a file selection
\* that ends in a successful load, which puts the loaded dataset in it.
C8_SlotChangesOnlyOnSuccess ==
    /\ current_data = None
    /\ [][current_data' # current_data =>
            /\ event'.op = "select"
            /\ event'.file # NoFile
            /\ event'.result.raised = None
            /\ event'.result.returned # None
            /\ current_data' = event'.result.returned]_vars

C8_Witness ==
    /\ Selected /\ Failed
    /\ current_data # None
    /\ data_loader.data # current_data

\* C9: no failure raised while the menu runs, a failed or ended input read
\* included, leaves run uncaught: the loop ends only by choice 0 or by a user
\* interrupt.
C9_NoUncaughtFailure == pc # "crashed"

Features(data) ==
    IF data = None THEN <<>>
    ELSE SelectSeq(data[1].columns, LAMBDA col : col \notin {"date", "sales"})

\* C10: whenever the menu shows the information of the current data, the
\* feature list it displays, the loader's custom_columns, is that of the
\* dataset in the current-data slot: a load that failed after feature detection
\* has not left the loader's manifest describing another table.
C10_ManifestMatchesCurrentData ==
    (event.op = "info" /\ current_data # None) => event.shown = Features(current_data)

====
